---- MODULE Spec2Model ----
(***************************************************************************)
(* A model of knowhere's IVF vector index (IndexIVF.cpp): the IVF object   *)
(* with its faiss index behind a shared pointer, the per-object mutex, the *)
(* IVFIndexModel produced by Train, the GPU copy path and the k-NN graph   *)
(* builder.  Caller threads run the public methods step by step.           *)
(***************************************************************************)
EXTENDS Integers, Sequences, FiniteSets, TLC

\* ------------------------------------------------------------------ bounds
\* rows of a dataset handed to Add/Search/GenGraph
MaxRows == 1
\* cap on the vectors one index holds
MaxTotal == 2
\* faiss::Index objects that can exist at once
MaxAddr == 6
\* largest k of a Search/GenGraph call
MaxK == 1
\* rows of a dataset handed to Train
MaxTrainRows == 2

\* ------------------------------------------------------------ input domains
Threads == {1, 2}     \* caller threads
Objs == {1, 2}        \* IVF objects: 1 is the caller's, 2 is made by Clone
GpuSlots == {1, 2}    \* GPUIVF handles the caller can keep
Dims == {1}           \* dimensions of the datasets
NprobeSet == {1, 2}   \* config["nprobe"] (absent: default 1)
DeviceIds == {0, 1}   \* device ids a caller may pass; only PoolDevices exist
PoolDevices == {0}    \* devices the resource pool has a resource for

\* a null shared_ptr / nullptr
NULL == 0
NoLabel == 0 - 1      \* faiss's label of an unfilled result slot
NoDist == 0 - 1       \* stands for faiss's +/-infinity of an unfilled slot
Host == 0 - 1         \* residency of an index in host memory (else a device id)
\* GenGraph's batch size
batch_size == 100

Addrs == 1..MaxAddr

Min(a, b) == IF a < b THEN a ELSE b

\* ------------------------------------------------------------------ datasets
\* GETTENSOR(dataset): dim, rows and the row-major buffer p_data (here x).
DatasetsOf(comp, idset, maxrows) ==
    UNION {[dim : {d}, x : [1..n -> [1..d -> comp]], ids : [1..n -> idset]] :
           <<d, n>> \in Dims \X (0..maxrows)}

Rows(ds) == Len(ds.x)

\* The sequences ss[i], ss[i+1], ... laid end to end: a row-major buffer.
RECURSIVE Flatten(_, _)
Flatten(ss, i) == IF i > Len(ss) THEN <<>> ELSE ss[i] \o Flatten(ss, i + 1)

\* -------------------------------------------------------------- faiss index
\* A faiss::IndexIVFFlat: trained flag, dimension, metric, the coarse
\* quantizer's centroids, ntotal and the inverted lists of <<id, vector>>.
FreeCell ==
    [used |-> FALSE, is_trained |-> FALSE, d |-> 0, metric |-> "L2",
     cents |-> <<>>, ntotal |-> 0, invlists |-> <<>>, device |-> Host]

RECURSIVE SumSq(_, _, _)
SumSq(a, b, i) ==
    IF i = 0 THEN 0 ELSE (a[i] - b[i]) * (a[i] - b[i]) + SumSq(a, b, i - 1)

RECURSIVE Dot(_, _, _)
Dot(a, b, i) == IF i = 0 THEN 0 ELSE a[i] * b[i] + Dot(a, b, i - 1)

L2(a, b) == SumSq(a, b, Min(Len(a), Len(b)))
IP(a, b) == Dot(a, b, Min(Len(a), Len(b)))

\* The coarse quantizer (an IndexFlatL2): the nearest centroid, the lowest
\* index among equally near ones.
Assign(cents, v) ==
    CHOOSE c \in 1..Len(cents) :
        \A c2 \in 1..Len(cents) :
            \/ L2(cents[c], v) < L2(cents[c2], v)
            \/ L2(cents[c], v) = L2(cents[c2], v) /\ c <= c2

\* faiss::IndexIVF::add_with_ids(n, x, xids): every vector goes to the list of
\* its nearest centroid with its id, in batch order; ntotal grows by n.
RECURSIVE add_rows(_, _, _, _)
add_rows(idx, x, ids, i) ==
    IF i > Len(x) THEN idx
    ELSE LET c == Assign(idx.cents, x[i])
         IN add_rows([idx EXCEPT !.invlists[c] = Append(@, <<ids[i], x[i]>>)],
                     x, ids, i + 1)

\* An add that builds the lists anew from its own batch: what the lists held
\* is lost.
add_with_ids_lost(idx, x, ids) ==
    [add_rows([idx EXCEPT !.invlists = [c \in 1..Len(@) |-> <<>>]], x, ids, 1)
        EXCEPT !.ntotal = Len(x)]

add_with_ids(idx, x, ids) ==
    [add_rows(idx, x, ids, 1) EXCEPT !.ntotal = idx.ntotal + Len(x)]

\* An add that numbers every batch from 0.
add_from_zero(idx, x) ==
    add_with_ids(idx, x, [i \in 1..Len(x) |-> i - 1])

\* faiss::Index::add(n, x): add_with_ids with the ids ntotal, ntotal+1, ...
add(idx, x) ==
    add_with_ids(idx, x, [i \in 1..Len(x) |-> idx.ntotal + i - 1])

\* A new IndexIVFFlat after train(): trained, empty, nlist centroids.
NewTrained(d, metric, cents) ==
    [used |-> TRUE, is_trained |-> TRUE, d |-> d, metric |-> metric,
     cents |-> cents, ntotal |-> 0,
     invlists |-> [c \in 1..Len(cents) |-> <<>>], device |-> Host]

\* A new IndexIVFFlat before train().
NewUntrained(d, metric, nlist) ==
    [used |-> TRUE, is_trained |-> FALSE, d |-> d, metric |-> metric,
     cents |-> <<>>, ntotal |-> 0,
     invlists |-> [c \in 1..nlist |-> <<>>], device |-> Host]

\* ------------------------------------------------------------------- search
\* GenParams(config): nprobe, 1 when the configuration has none.
ConfigsOf(nprobes) ==
    {[has_nprobe |-> FALSE, nprobe |-> 0]} \cup
    {[has_nprobe |-> TRUE, nprobe |-> n] : n \in nprobes}

Configs == ConfigsOf(NprobeSet)

GenParams(cfg) == IF cfg.has_nprobe THEN cfg.nprobe ELSE 1

\* The quantizer's answer for one query: the centroids by increasing L2
\* distance (the lower index first among equals); position i holds the i-th.
ProbeOrder(cents, q) ==
    LET Before(a, b) == \/ L2(cents[a], q) < L2(cents[b], q)
                        \/ L2(cents[a], q) = L2(cents[b], q) /\ a < b
        Rank(c) == Cardinality({c2 \in 1..Len(cents) : Before(c2, c)})
    IN [i \in 1..Len(cents) |-> CHOOSE c \in 1..Len(cents) : Rank(c) = i - 1]

\* The entries of the first np probed lists, in scan order.
RECURSIVE Scan(_, _, _)
Scan(idx, order, np) ==
    IF np = 0 THEN <<>>
    ELSE Scan(idx, order, np - 1) \o idx.invlists[order[np]]

Dist(metric, q, v) == IF metric = "L2" THEN L2(q, v) ELSE IP(q, v)

\* The position of the best candidate: smallest L2 distance or largest inner
\* product; the first scanned among equals.
BestPos(metric, q, cands) ==
    LET D(i) == Dist(metric, q, cands[i][2])
        Wins(i, j) == IF metric = "L2" THEN D(i) < D(j) ELSE D(i) > D(j)
    IN CHOOSE i \in 1..Len(cands) :
           \A j \in 1..Len(cands) : Wins(i, j) \/ (D(i) = D(j) /\ i <= j)

Remove(s, i) == [j \in 1..(Len(s) - 1) |-> IF j < i THEN s[j] ELSE s[j + 1]]

\* The k best with the slots that have no candidate left at 0, the value of
\* a buffer that was only zeroed.
RECURSIVE TopK_zero(_, _, _, _)
TopK_zero(metric, q, cands, k) ==
    IF k = 0 THEN <<>>
    ELSE IF Len(cands) = 0 THEN <<<<0, 0>>>> \o TopK_zero(metric, q, cands, k - 1)
    ELSE LET b == BestPos(metric, q, cands)
         IN <<<<cands[b][1], Dist(metric, q, cands[b][2])>>>> \o
            TopK_zero(metric, q, Remove(cands, b), k - 1)

\* The k best of the candidates as <<label, distance>>, best first; the
\* slots with no candidate left hold <<NoLabel, NoDist>>.
RECURSIVE TopK(_, _, _, _)
TopK(metric, q, cands, k) ==
    IF k = 0 THEN <<>>
    ELSE IF Len(cands) = 0 THEN <<<<NoLabel, NoDist>>>> \o TopK(metric, q, cands, k - 1)
    ELSE LET b == BestPos(metric, q, cands)
         IN <<<<cands[b][1], Dist(metric, q, cands[b][2])>>>> \o
            TopK(metric, q, Remove(cands, b), k - 1)

\* faiss::ivflib::search_with_parameters for one query.
SearchOne(idx, q, k, nprobe) ==
    TopK(idx.metric, q,
         Scan(idx, ProbeOrder(idx.cents, q), Min(nprobe, Len(idx.cents))), k)

\* search_impl(n, data, k, distances, labels, cfg): the n rows of k results,
\* row i at i*k .. i*k+k-1.
RECURSIVE search_rows(_, _, _, _, _)
search_rows(idx, x, k, nprobe, i) ==
    IF i > Len(x) THEN <<>>
    ELSE SearchOne(idx, x[i], k, nprobe) \o search_rows(idx, x, k, nprobe, i + 1)

search_impl(idx, x, k, cfg) == search_rows(idx, x, k, GenParams(cfg), 1)

Labels(res) == [i \in 1..Len(res) |-> res[i][1]]
Distances(res) == [i \in 1..Len(res) |-> res[i][2]]

\* -------------------------------------------------------------------- state
VARIABLES
    env,       \* the callers and the inputs they draw from (fixed by Init)
    heap,      \* address -> faiss index object (FreeCell when unallocated)
    index_,    \* IVF object -> address of its faiss index, or NULL
    alive,     \* IVF object -> whether the object exists
    mutex_,    \* IVF object -> thread holding its mutex_, or 0
    model,     \* the caller's IVFIndexModel: address of its index_, or NULL
    saved,     \* the BinarySet the caller kept from the last Serialize
    saved_src, \* the index state that Serialize encoded into saved (history)
    gpu,       \* GPUIVF handle -> [index, device, res] (index NULL: no handle)
    pool,      \* device of the resource pool -> thread leasing its resource, or 0
    pc,        \* thread -> position in the method it runs
    op,        \* thread -> the method it runs
    obj,       \* thread -> the IVF object it runs it on
    loc,       \* thread -> the locals and the result of the call
    hist       \* IVF object -> Count when its index was installed and the rows
               \* added to it since (history)

vars == <<env, heap, index_, alive, mutex_, model, saved, saved_src, gpu, pool,
          pc, op, obj, loc, hist>>

heapvars == <<heap, index_, alive, model, gpu>>
blobvars == <<saved, saved_src>>

NoDataset == [dim |-> 0, x |-> <<>>, ids |-> <<>>]
NoConfig == [has_nprobe |-> FALSE, nprobe |-> 0]
NoGpu == [index |-> NULL, device |-> Host, res |-> Host]

\* A thread's locals between calls.
NoLocals ==
    [err |-> "", rows |-> 0, k |-> 0, nbuf |-> 0, ids |-> <<>>, dists |-> <<>>,
     ds |-> NoDataset, cfg |-> NoConfig, ntotal |-> 0, i |-> 0, graph |-> <<>>,
     res |-> Host, dev |-> Host, ret |-> NULL]

NoHist == [base |-> 0, sum |-> 0]
NoBlob == <<>>

Datasets == DatasetsOf(env.comp, env.ids, env.maxRows)

\* The datasets of a call that passes no ids.
Queries == DatasetsOf(env.comp, {0}, env.maxRows)

\* The configurations a caller passes.
CallConfigs == ConfigsOf(env.nprobes)

\* What faiss reads as n vectors of d floats at p_data + start: the floats of
\* the dataset's buffer, whatever the dataset's own dim and rows; a float past
\* the buffer's end is whatever lies there.
ReadRows(ds, start, n, d) ==
    LET flat == Flatten(ds.x, 1)
        At(i, j) == start + (i - 1) * d + j
        past == {ij \in (1..n) \X (1..d) : At(ij[1], ij[2]) > Len(flat)}
    IN {[i \in 1..n |-> [j \in 1..d |->
            IF <<i, j>> \in past THEN junk[<<i, j>>] ELSE flat[At(i, j)]]] :
        junk \in [past -> env.comp]}

\* !index_ || !index_->is_trained
NotTrained(o) == index_[o] = NULL \/ ~heap[index_[o]].is_trained

\* IVF::Count() and IVF::Dimension()
Count(o) == heap[index_[o]].ntotal
Dimension(o) == heap[index_[o]].d

\* The addresses something points to.
Live(ix, md, g) ==
    {a \in Addrs : \/ \E o \in Objs : ix[o] = a
                   \/ md = a
                   \/ \E s \in GpuSlots : g[s].index = a}

\* The first holder of address a, the holders taken in the order: IVF
\* objects, the model, GPUIVF handles.
Holder(ix, md, g, a) ==
    IF \E o \in Objs : ix[o] = a
    THEN CHOOSE o \in Objs : ix[o] = a /\ \A o2 \in Objs : ix[o2] = a => o <= o2
    ELSE IF md = a THEN Cardinality(Objs) + 1
    ELSE Cardinality(Objs) + 1 +
         (CHOOSE s \in GpuSlots :
             g[s].index = a /\ \A s2 \in GpuSlots : g[s2].index = a => s <= s2)

\* shared_ptr ownership and the allocator: an index object lives while an IVF
\* object, the model or a GPUIVF handle points to it, and the cells nothing
\* points to are released.  Which address an object has carries no meaning,
\* so the live objects are kept at the addresses 1, 2, ... in the order of
\* their holders: states that differ only in addresses are one state.
Install(h, ix, md, g) ==
    LET live == Live(ix, md, g)
        New(a) == Cardinality({b \in live :
                                 Holder(ix, md, g, b) <= Holder(ix, md, g, a)})
    IN /\ heap' = [n \in Addrs |->
                     IF \E a \in live : New(a) = n
                     THEN h[CHOOSE a \in live : New(a) = n] ELSE FreeCell]
       /\ index_' = [o \in Objs |-> IF ix[o] = NULL THEN NULL ELSE New(ix[o])]
       /\ model' = IF md = NULL THEN NULL ELSE New(md)
       /\ gpu' = [s \in GpuSlots |->
                    IF g[s].index = NULL THEN g[s]
                    ELSE [g[s] EXCEPT !.index = New(g[s].index)]]

HasFree(h) == \E a \in Addrs : ~h[a].used

\* new: the lowest free address.
Alloc(h) == CHOOSE a \in Addrs : ~h[a].used /\ \A b \in 1..(a - 1) : h[b].used

\* faiss::clone_index: a new index object with a copy of every field.
clone_index(h, a) == [h EXCEPT ![Alloc(h)] = h[a]]

\* The state with the caller's IVF object 1 around index ix (FreeCell: none),
\* its IVFIndexModel around md (FreeCell: no model) and no call running.
InitWith(world, ix, md) ==
    /\ env = world
    /\ index_ = [o \in Objs |-> IF o = 1 /\ ix.used THEN 1 ELSE NULL]
    /\ model = IF ~md.used THEN NULL ELSE IF ix.used THEN 2 ELSE 1
    /\ heap = [a \in Addrs |->
                 IF a = 1 /\ ix.used THEN ix
                 ELSE IF a = model THEN md ELSE FreeCell]
    /\ alive = [o \in Objs |-> o = 1]
    /\ mutex_ = [o \in Objs |-> 0]
    /\ gpu = [s \in GpuSlots |-> NoGpu]
    /\ pool = [d \in PoolDevices |-> 0]
    /\ pc = [t \in Threads |-> "idle"]
    /\ op = [t \in Threads |-> "none"]
    /\ obj = [t \in Threads |-> 0]
    /\ loc = [t \in Threads |-> NoLocals]
    /\ hist = [o \in Objs |-> NoHist]

\* The caller has no BinarySet yet.
NoSaved == saved = NoBlob /\ saved_src = FreeCell

\* The indexes Train can produce in a world.
Quantizers(world) ==
    UNION {{NewTrained(d, m, c) : c \in [1..n -> [1..d -> world.comp]]} :
           <<d, m, n>> \in Dims \X world.metrics \X world.nlists}

\* An IVF object as the caller first has it: default-constructed (no index),
\* or constructed around an index the caller made and has not trained.
InitNew(world) ==
    /\ \E ix \in {FreeCell, NewUntrained(1, "L2", 1)} : InitWith(world, ix, FreeCell)
    /\ NoSaved

\* A thread enters method m of object o.
Enter(t, m, o, next) ==
    /\ pc' = [pc EXCEPT ![t] = next]
    /\ op' = [op EXCEPT ![t] = m]
    /\ obj' = [obj EXCEPT ![t] = o]

\* KNOWHERE_THROW_MSG(msg) as the first statement of method m.
Throw(t, m, o, msg) ==
    /\ Enter(t, m, o, "thrown")
    /\ loc' = [loc EXCEPT ![t].err = msg]

\* An exception leaving a method the thread is already in.
Raise(t, msg) ==
    /\ pc' = [pc EXCEPT ![t] = "thrown"]
    /\ loc' = [loc EXCEPT ![t].err = msg]

Goto(t, next) == pc' = [pc EXCEPT ![t] = next]

\* A caller thread that is between calls, about to call a method of o (the
\* process still running: no thread has brought it down).
Calls(t, o) ==
    /\ t \in env.threads /\ pc[t] = "idle" /\ alive[o]
    /\ \A u \in Threads : pc[u] # "crashed"

\* Another thread is inside set_index_model or Load of o, resetting index_.
Resetting(o) == \E u \in Threads : obj[u] = o /\ pc[u] \in {"sim_cs", "load_cs"}

\* Another thread is inside Add or AddWithoutIds of o, writing ntotal and
\* the inverted lists.
Adding(o) == \E u \in Threads : obj[u] = o /\ pc[u] \in {"add_cs", "awi_cs"}

\* A read of index_ (and is_trained) that takes no lock.  While index_ is
\* being reset the read is a data race: it sees index_ as it is before or
\* after the reset, or a pointer that brings the process down.
PointerRead(o) == IF Resetting(o) THEN {"read", "crash"} ELSE {"read"}

\* A read of the index's vectors and ntotal that takes no lock: a data race
\* also while they are being written.
ContentRead(o) ==
    IF Resetting(o) \/ Adding(o) THEN {"read", "crash"} ELSE {"read"}

\* A lock_guard that does not wait for the holder.
Lock_nowait(t, o) == mutex_' = [mutex_ EXCEPT ![o] = t]

\* std::lock_guard<std::mutex> lk(mutex_): blocks while another holds it.
Lock(t, o) == mutex_[o] = 0 /\ mutex_' = [mutex_ EXCEPT ![o] = t]

\* ~lock_guard at the end of the method.
Unlock(o) == mutex_' = [mutex_ EXCEPT ![o] = 0]

\* ---------------------------------------------------------------- IVF::Train
\* Builds an IndexIVFFlat of the dataset's dim and config's nlist and metric
\* and trains it; the clustering is the quantizer's own and is left open here:
\* any nlist centroids.  faiss refuses fewer training points than clusters
\* (with nlist 0 there is nothing to train and any batch passes).
Train(t, o) ==
    /\ Calls(t, o)
    /\ \E d \in Dims, n \in 0..MaxTrainRows, nlist \in env.nlists,
          metric \in env.metrics :
          IF n < nlist
          THEN /\ Enter(t, "Train", o, "thrown")
               /\ loc' = [loc EXCEPT ![t].rows = n,
                                     ![t].err = "faiss: fewer training points than clusters"]
               /\ UNCHANGED <<heap, index_, model, gpu>>
          ELSE /\ HasFree(heap)
               /\ \E cents \in [1..nlist -> [1..d -> env.comp]] :
                     Install([heap EXCEPT ![Alloc(heap)] = NewTrained(d, metric, cents)],
                             index_, Alloc(heap), gpu)
               /\ Enter(t, "Train", o, "done")
               /\ loc' = [loc EXCEPT ![t].rows = n]
    /\ UNCHANGED <<env, alive, mutex_, blobvars, pool, hist>>

\* ------------------------------------------------------ IVF::set_index_model
set_index_model_lock(t, o) ==
    /\ Calls(t, o)
    /\ model # NULL
    /\ Lock(t, o)
    /\ Enter(t, "set_index_model", o, "sim_cs")
    /\ UNCHANGED <<env, heapvars, blobvars, pool, loc, hist>>

\* index_.reset(faiss::clone_index(rel_model->index_.get()))
set_index_model_body(t) ==
    /\ pc[t] = "sim_cs"
    /\ model # NULL /\ HasFree(heap)
    /\ Install(clone_index(heap, model),
               [index_ EXCEPT ![obj[t]] = Alloc(heap)], model, gpu)
    /\ hist' = [hist EXCEPT ![obj[t]] =
                  [base |-> heap[model].ntotal, sum |-> 0]]
    /\ Unlock(obj[t])
    /\ Goto(t, "done")
    /\ UNCHANGED <<env, alive, blobvars, pool, op, obj, loc>>

\* ------------------------------------------------------------------ IVF::Add
\* Add testing only !index_, not is_trained.
Add_check_nullonly(t, o) ==
    /\ Calls(t, o)
    /\ IF index_[o] = NULL
       THEN Throw(t, "Add", o, "index not initialize or trained")
       ELSE Enter(t, "Add", o, "add_lock") /\ UNCHANGED loc
    /\ UNCHANGED <<env, heapvars, mutex_, blobvars, pool, hist>>

Add_check(t, o) ==
    /\ Calls(t, o)
    /\ \E r \in PointerRead(o) :
          IF r = "crash"
          THEN Enter(t, "Add", o, "crashed") /\ UNCHANGED loc
          ELSE IF NotTrained(o)
          THEN Throw(t, "Add", o, "index not initialize or trained")
          ELSE Enter(t, "Add", o, "add_lock") /\ UNCHANGED loc
    /\ UNCHANGED <<env, heapvars, mutex_, blobvars, pool, hist>>

Add_lock(t) ==
    /\ pc[t] = "add_lock"
    /\ Lock(t, obj[t])
    /\ Goto(t, "add_cs")
    /\ UNCHANGED <<env, heapvars, blobvars, pool, op, obj, loc, hist>>

Bump(h, n) == [h EXCEPT !.sum = @ + n]

\* Add handing dim, not rows, to add_with_ids as the number of vectors.
Add_body_dim(t) ==
    /\ pc[t] = "add_cs"
    /\ \E ds \in Datasets :
          LET x == [i \in 1..ds.dim |->
                      IF i <= Rows(ds) THEN ds.x[i] ELSE [j \in 1..ds.dim |-> 0]]
              ids == [i \in 1..ds.dim |-> IF i <= Rows(ds) THEN ds.ids[i] ELSE 0]
          IN /\ heap[index_[obj[t]]].ntotal + ds.dim <= env.maxTotal
             /\ heap' = [heap EXCEPT ![index_[obj[t]]] = add_with_ids(@, x, ids)]
             /\ loc' = [loc EXCEPT ![t].rows = Rows(ds), ![t].ds = ds]
             /\ hist' = [hist EXCEPT ![obj[t]] = Bump(@, Rows(ds))]
    /\ Unlock(obj[t])
    /\ Goto(t, "done")
    /\ UNCHANGED <<env, index_, alive, model, blobvars, gpu, pool, op, obj>>

\* index_->add_with_ids(rows, p_data, p_ids)
Add_body(t) ==
    /\ pc[t] = "add_cs"
    /\ \E ds \in Datasets :
          /\ heap[index_[obj[t]]].ntotal + Rows(ds) <= env.maxTotal
          /\ \E x \in ReadRows(ds, 0, Rows(ds), Dimension(obj[t])) :
                heap' = [heap EXCEPT ![index_[obj[t]]] = add_with_ids(@, x, ds.ids)]
          /\ loc' = [loc EXCEPT ![t].rows = Rows(ds), ![t].ds = ds]
          /\ hist' = [hist EXCEPT ![obj[t]] = Bump(@, Rows(ds))]
    /\ Unlock(obj[t])
    /\ Goto(t, "done")
    /\ UNCHANGED <<env, index_, alive, model, blobvars, gpu, pool, op, obj>>

\* -------------------------------------------------------- IVF::AddWithoutIds
AddWithoutIds_check(t, o) ==
    /\ Calls(t, o)
    /\ \E r \in PointerRead(o) :
          IF r = "crash"
          THEN Enter(t, "AddWithoutIds", o, "crashed") /\ UNCHANGED loc
          ELSE IF NotTrained(o)
          THEN Throw(t, "AddWithoutIds", o, "index not initialize or trained")
          ELSE Enter(t, "AddWithoutIds", o, "awi_lock") /\ UNCHANGED loc
    /\ UNCHANGED <<env, heapvars, mutex_, blobvars, pool, hist>>

AddWithoutIds_lock(t) ==
    /\ pc[t] = "awi_lock"
    /\ Lock(t, obj[t])
    /\ Goto(t, "awi_cs")
    /\ UNCHANGED <<env, heapvars, blobvars, pool, op, obj, loc, hist>>

\* index_->add(rows, p_data)
AddWithoutIds_body(t) ==
    /\ pc[t] = "awi_cs"
    /\ \E ds \in Queries :
          /\ heap[index_[obj[t]]].ntotal + Rows(ds) <= env.maxTotal
          /\ \E x \in ReadRows(ds, 0, Rows(ds), Dimension(obj[t])) :
                heap' = [heap EXCEPT ![index_[obj[t]]] = add(@, x)]
          /\ loc' = [loc EXCEPT ![t].rows = Rows(ds), ![t].ds = ds]
          /\ hist' = [hist EXCEPT ![obj[t]] = Bump(@, Rows(ds))]
    /\ Unlock(obj[t])
    /\ Goto(t, "done")
    /\ UNCHANGED <<env, index_, alive, model, blobvars, gpu, pool, op, obj>>

\* ------------------------------------------------------- persistence codec
EncodeList(l) == <<Len(l)>> \o Flatten([e \in 1..Len(l) |-> <<l[e][1]>> \o l[e][2]], 1)

\* FaissBaseIndex::SerializeImpl: the index written out field by field
\* (the BinarySet holds the one buffer).
SerializeImpl(idx) ==
    <<IF idx.is_trained THEN 1 ELSE 0, idx.d, IF idx.metric = "L2" THEN 1 ELSE 0,
      Len(idx.invlists), idx.ntotal>>
    \o Flatten(idx.cents, 1)
    \o Flatten([c \in 1..Len(idx.invlists) |-> EncodeList(idx.invlists[c])], 1)

RECURSIVE DecodeLists(_, _, _, _)
DecodeLists(b, pos, n, d) ==
    IF n = 0 THEN <<>>
    ELSE LET len == b[pos]
             at(e) == pos + 1 + (e - 1) * (d + 1)
         IN <<[e \in 1..len |-> <<b[at(e)], [j \in 1..d |-> b[at(e) + j]]>>]>>
            \o DecodeLists(b, pos + 1 + len * (d + 1), n - 1, d)

\* FaissBaseIndex::LoadImpl: the index read back from the buffer.
LoadImpl(b) ==
    LET d == b[2]
        nlist == b[4]
        ncent == IF b[1] = 1 THEN nlist ELSE 0
    IN [used |-> TRUE, is_trained |-> b[1] = 1, d |-> d,
        metric |-> IF b[3] = 1 THEN "L2" ELSE "IP",
        cents |-> [c \in 1..ncent |-> [j \in 1..d |-> b[5 + (c - 1) * d + j]]],
        ntotal |-> b[5],
        invlists |-> DecodeLists(b, 6 + ncent * d, nlist, d),
        device |-> Host]

\* SealImpl: the base behaviour is empty.
SealImpl(idx) == idx

\* ------------------------------------------------------------ IVF::Serialize
Serialize_check(t, o) ==
    /\ Calls(t, o)
    /\ \E r \in PointerRead(o) :
          IF r = "crash"
          THEN Enter(t, "Serialize", o, "crashed") /\ UNCHANGED loc
          ELSE IF NotTrained(o)
          THEN Throw(t, "Serialize", o, "index not initialize or trained")
          ELSE Enter(t, "Serialize", o, "ser_lock") /\ UNCHANGED loc
    /\ UNCHANGED <<env, heapvars, mutex_, blobvars, pool, hist>>

Serialize_lock(t) ==
    /\ pc[t] = "ser_lock"
    /\ Lock(t, obj[t])
    /\ Goto(t, "ser_cs")
    /\ UNCHANGED <<env, heapvars, blobvars, pool, op, obj, loc, hist>>

\* Seal(); return SerializeImpl();
Serialize_body(t) ==
    /\ pc[t] = "ser_cs"
    /\ IF NotTrained(obj[t])
       THEN /\ Raise(t, "index not initialize or trained")
            /\ UNCHANGED <<heap, blobvars>>
       ELSE /\ heap' = [heap EXCEPT ![index_[obj[t]]] = SealImpl(@)]
            /\ saved' = SerializeImpl(heap'[index_[obj[t]]])
            /\ saved_src' = heap'[index_[obj[t]]]
            /\ Goto(t, "done")
            /\ UNCHANGED loc
    /\ Unlock(obj[t])
    /\ UNCHANGED <<env, index_, alive, model, gpu, pool, op, obj, hist>>

\* ----------------------------------------------------------------- IVF::Load
Load_lock(t, o) ==
    /\ Calls(t, o)
    /\ saved # NoBlob
    /\ Lock(t, o)
    /\ Enter(t, "Load", o, "load_cs")
    /\ UNCHANGED <<env, heapvars, blobvars, pool, loc, hist>>

\* Load reading the buffer and leaving index_ as it was.
Load_body_keep(t) ==
    /\ pc[t] = "load_cs"
    /\ saved # NoBlob
    /\ Unlock(obj[t])
    /\ Goto(t, "done")
    /\ UNCHANGED <<env, heapvars, blobvars, pool, op, obj, loc, hist>>

\* LoadImpl(index_binary): index_ is reset to the index read from the buffer.
Load_body(t) ==
    /\ pc[t] = "load_cs"
    /\ saved # NoBlob /\ HasFree(heap)
    /\ Install([heap EXCEPT ![Alloc(heap)] = LoadImpl(saved)],
               [index_ EXCEPT ![obj[t]] = Alloc(heap)], model, gpu)
    /\ hist' = [hist EXCEPT ![obj[t]] =
                  [base |-> LoadImpl(saved).ntotal, sum |-> 0]]
    /\ Unlock(obj[t])
    /\ Goto(t, "done")
    /\ UNCHANGED <<env, alive, blobvars, pool, op, obj, loc>>

\* ------------------------------------------------------ IVFIndexModel::Load
\* LoadImpl(binary_set) on the caller's IVFIndexModel (under the model's own
\* mutex_): the model's index_ is reset to the index read from the buffer.
IVFIndexModel_Load(t) ==
    /\ t \in env.threads /\ pc[t] = "idle"
    /\ \A u \in Threads : pc[u] # "crashed"
    /\ saved # NoBlob /\ HasFree(heap)
    /\ Install([heap EXCEPT ![Alloc(heap)] = LoadImpl(saved)],
               index_, Alloc(heap), gpu)
    /\ Enter(t, "IVFIndexModel::Load", 0, "done")
    /\ UNCHANGED <<env, alive, mutex_, blobvars, pool, loc, hist>>

\* ----------------------------------------------------------------- IVF::Seal
Seal(t, o) ==
    /\ Calls(t, o)
    /\ \E r \in PointerRead(o) :
          IF r = "crash"
          THEN Enter(t, "Seal", o, "crashed") /\ UNCHANGED <<heap, loc>>
          ELSE IF NotTrained(o)
          THEN /\ Throw(t, "Seal", o, "index not initialize or trained")
               /\ UNCHANGED heap
          ELSE /\ heap' = [heap EXCEPT ![index_[o]] = SealImpl(@)]
               /\ Enter(t, "Seal", o, "done")
               /\ UNCHANGED loc
    /\ UNCHANGED <<env, index_, alive, mutex_, model, blobvars, gpu, pool, hist>>

\* ---------------------------------------------------------------- IVF::Clone
Clone_lock(t, o) ==
    /\ Calls(t, o)
    /\ \E o2 \in Objs : ~alive[o2]
    /\ Lock(t, o)
    /\ Enter(t, "Clone", o, "clone_cs")
    /\ UNCHANGED <<env, heapvars, blobvars, pool, loc, hist>>

\* A Clone whose new IVF object is around the source's own index object
\* (index_ handed to Clone_impl in place of the copy).
Clone_impl_shared(ix, o2, a) ==
    [ix EXCEPT ![o2] = CHOOSE b \in Addrs : \E o \in Objs : ix[o] = b /\ mutex_[o] # 0]

\* Clone_impl(new_index): a new IVF object around the copy.
Clone_impl(ix, o2, a) == [ix EXCEPT ![o2] = a]

\* faiss::clone_index(index_.get()) into a new shared_ptr, then Clone_impl;
\* faiss throws for a null index.
Clone_body(t) ==
    /\ pc[t] = "clone_cs"
    /\ IF index_[obj[t]] = NULL
       THEN /\ Raise(t, "faiss: clone not supported for this type of index")
            /\ UNCHANGED <<heap, index_, model, gpu, alive, hist>>
       ELSE /\ HasFree(heap)
            /\ \E o2 \in Objs :
                  /\ ~alive[o2] /\ \A o3 \in Objs : o3 < o2 => alive[o3]
                  /\ Install(clone_index(heap, index_[obj[t]]),
                             Clone_impl(index_, o2, Alloc(heap)), model, gpu)
                  /\ alive' = [alive EXCEPT ![o2] = TRUE]
                  /\ hist' = [hist EXCEPT ![o2] =
                                [base |-> Count(obj[t]), sum |-> 0]]
                  /\ loc' = [loc EXCEPT ![t].ret = o2]
            /\ Goto(t, "done")
    /\ Unlock(obj[t])
    /\ UNCHANGED <<env, blobvars, pool, op, obj>>

\* The caller lets go of a clone no call is running on: the object and, with
\* the last pointer to it, its index are destroyed.
Drop(o) ==
    /\ o # 1 /\ alive[o]
    /\ \A t \in Threads : obj[t] # o /\ ~(op[t] = "Clone" /\ loc[t].ret = o)
    /\ alive' = [alive EXCEPT ![o] = FALSE]
    /\ Install(heap, [index_ EXCEPT ![o] = NULL], model, gpu)
    /\ hist' = [hist EXCEPT ![o] = NoHist]
    /\ UNCHANGED <<env, mutex_, blobvars, pool, pc, op, obj, loc>>

\* --------------------------------------------------------------- IVF::Search
\* Search allocating its result buffers before the trained test.
Search_check_late(t, o) ==
    /\ Calls(t, o)
    /\ IF NotTrained(o)
       THEN /\ Enter(t, "Search", o, "thrown")
            /\ loc' = [loc EXCEPT ![t].err = "index not initialize or trained",
                                  ![t].nbuf = 2]
       ELSE Enter(t, "Search", o, "search_alloc") /\ UNCHANGED loc
    /\ UNCHANGED <<env, heapvars, mutex_, blobvars, pool, hist>>

Search_check(t, o) ==
    /\ Calls(t, o)
    /\ \E r \in PointerRead(o) :
          IF r = "crash"
          THEN Enter(t, "Search", o, "crashed") /\ UNCHANGED loc
          ELSE IF NotTrained(o)
          THEN Throw(t, "Search", o, "index not initialize or trained")
          ELSE Enter(t, "Search", o, "search_alloc") /\ UNCHANGED loc
    /\ UNCHANGED <<env, heapvars, mutex_, blobvars, pool, hist>>

\* elems = rows * k; res_ids and res_dis are malloc'ed.
Search_alloc(t) ==
    /\ pc[t] = "search_alloc"
    /\ \E n \in 0..env.maxRows, k \in 0..MaxK :
          loc' = [loc EXCEPT ![t].rows = n, ![t].k = k, ![t].nbuf = 2]
    /\ Goto(t, "search_impl")
    /\ UNCHANGED <<env, heapvars, mutex_, blobvars, pool, op, obj, hist>>

\* search_impl(rows, p_data, k, res_dis, res_ids, config), then the two
\* arrays are wrapped into the returned Dataset.
Search_run(t) ==
    /\ pc[t] = "search_impl"
    /\ \E r \in ContentRead(obj[t]) :
          IF r = "crash"
          THEN Goto(t, "crashed") /\ UNCHANGED loc
          ELSE /\ \E ds \in Queries, cfg \in CallConfigs :
                    /\ Rows(ds) = loc[t].rows
                    /\ \E x \in ReadRows(ds, 0, Rows(ds), Dimension(obj[t])) :
                          LET res == search_impl(heap[index_[obj[t]]], x,
                                                 loc[t].k, cfg)
                          IN loc' = [loc EXCEPT ![t].ds = ds, ![t].cfg = cfg,
                                                ![t].ids = Labels(res),
                                                ![t].dists = Distances(res)]
               /\ Goto(t, "done")
    /\ UNCHANGED <<env, heapvars, mutex_, blobvars, pool, op, obj, hist>>

\* ------------------------------------------------------------- IVF::GenGraph
tail_batch_size(ntotal) == ntotal % batch_size
batch_search_count(ntotal) == ntotal \div batch_size
total_search_count(ntotal) ==
    IF tail_batch_size(ntotal) = 0 THEN batch_search_count(ntotal)
    ELSE batch_search_count(ntotal) + 1

\* The size of batch i (from 0).
b_size(ntotal, i) ==
    IF i = total_search_count(ntotal) - 1 /\ tail_batch_size(ntotal) # 0
    THEN tail_batch_size(ntotal) ELSE batch_size

\* ntotal = Count(); graph.resize(ntotal).  Count() dereferences index_: a
\* null index_ ends the process.
GenGraph_start(t, o) ==
    /\ Calls(t, o)
    /\ \E r \in ContentRead(o) :
          IF index_[o] = NULL \/ r = "crash"
          THEN Enter(t, "GenGraph", o, "crashed") /\ UNCHANGED loc
          ELSE /\ \E ds \in Queries, k \in 0..MaxK, cfg \in CallConfigs :
                     loc' = [loc EXCEPT ![t].ds = ds, ![t].k = k, ![t].cfg = cfg,
                                        ![t].ntotal = Count(o), ![t].i = 0,
                                        ![t].graph = [p \in 1..Count(o) |-> <<>>]]
               /\ Enter(t, "GenGraph", o, "gg_loop")
    /\ UNCHANGED <<env, heapvars, mutex_, blobvars, pool, hist>>

\* The loop body for batch i: the batch's rows are searched and row j's k
\* labels are copied into graph[batch_size * i + j].  The rows are read at
\* p_data + batch_size * dim * i whatever the dataset's own row count: a row
\* past the dataset's end is whatever lies there.
GenGraph_batch(t) ==
    /\ pc[t] = "gg_loop"
    /\ loc[t].i < total_search_count(loc[t].ntotal)
    /\ \E r \in ContentRead(obj[t]) :
          IF r = "crash"
          THEN Goto(t, "crashed") /\ UNCHANGED loc
          ELSE
          LET i == loc[t].i
              k == loc[t].k
              b == b_size(loc[t].ntotal, i)
              ds == loc[t].ds
          IN /\ \E xq \in ReadRows(ds, batch_size * ds.dim * i, b,
                                    Dimension(obj[t])) :
                   LET res == Labels(search_impl(heap[index_[obj[t]]], xq, k,
                                                 loc[t].cfg))
                   IN loc' = [loc EXCEPT
                                ![t].i = i + 1,
                                ![t].graph = [p \in 1..Len(@) |->
                                    IF p > batch_size * i /\ p <= batch_size * i + b
                                    THEN [m \in 1..k |->
                                            res[(p - batch_size * i - 1) * k + m]]
                                    ELSE @[p]]]
             /\ UNCHANGED pc
    /\ UNCHANGED <<env, heapvars, mutex_, blobvars, pool, op, obj, hist>>

GenGraph_end(t) ==
    /\ pc[t] = "gg_loop"
    /\ loc[t].i >= total_search_count(loc[t].ntotal)
    /\ Goto(t, "done")
    /\ UNCHANGED <<env, heapvars, mutex_, blobvars, pool, op, obj, loc, hist>>

\* ------------------------------------------------------- accelerator resources
NoRes == 0 - 1

\* FaissGpuResourceMgr::GetRes(device_id): the device's resource when the pool
\* has one to lease, else none.
GetRes(dev) == IF dev \in PoolDevices /\ pool[dev] = 0 THEN dev ELSE NoRes

\* ResScope rs(res, device_id, false): the lease is held from here ...
ResScope(t, res) == [pool EXCEPT ![res] = t]

\* ... to the end of the scope, however it is left.
ResScopeExit(res) == [pool EXCEPT ![res] = 0]

FreeGpuSlots == {s \in GpuSlots : gpu[s].index = NULL}

\* ------------------------------------------------------- IVF::CopyCpuToGpu
\* CopyCpuToGpu without the test of what GetRes returned: res->faiss_res
\* through a null pointer.
CopyCpuToGpu_get_nocheck(t, o) ==
    /\ Calls(t, o)
    /\ Cardinality(FreeGpuSlots) > Cardinality({u \in Threads : pc[u] = "copy_gpu"})
    /\ \E dev \in DeviceIds :
          IF GetRes(dev) = NoRes
          THEN /\ Enter(t, "CopyCpuToGpu", o, "crashed")
               /\ loc' = [loc EXCEPT ![t].dev = dev]
               /\ UNCHANGED pool
          ELSE /\ pool' = ResScope(t, GetRes(dev))
               /\ loc' = [loc EXCEPT ![t].dev = dev, ![t].res = GetRes(dev)]
               /\ Enter(t, "CopyCpuToGpu", o, "copy_gpu")
    /\ UNCHANGED <<env, heapvars, mutex_, blobvars, hist>>

CopyCpuToGpu_get(t, o) ==
    /\ Calls(t, o)
    /\ Cardinality(FreeGpuSlots) > Cardinality({u \in Threads : pc[u] = "copy_gpu"})
    /\ \E dev \in DeviceIds :
          IF GetRes(dev) = NoRes
          THEN /\ Enter(t, "CopyCpuToGpu", o, "thrown")
               /\ loc' = [loc EXCEPT ![t].dev = dev,
                                     ![t].err = "CopyCpuToGpu Error, can't get gpu_resource"]
               /\ UNCHANGED pool
          ELSE /\ pool' = ResScope(t, GetRes(dev))
               /\ loc' = [loc EXCEPT ![t].dev = dev, ![t].res = GetRes(dev)]
               /\ Enter(t, "CopyCpuToGpu", o, "copy_gpu")
    /\ UNCHANGED <<env, heapvars, mutex_, blobvars, hist>>

\* The lease taken by hand and given back only on the way that returns.
CopyCpuToGpu_fail_leak(t) ==
    /\ pc[t] = "copy_gpu"
    /\ Raise(t, "faiss: index_cpu_to_gpu failed")
    /\ UNCHANGED <<env, heapvars, mutex_, blobvars, pool, op, obj, hist>>

\* faiss::gpu::index_cpu_to_gpu failed (no index to copy, or the device
\* refused): the exception leaves the scope of rs.
CopyCpuToGpu_fail(t) ==
    /\ pc[t] = "copy_gpu"
    /\ pool' = ResScopeExit(loc[t].res)
    /\ Raise(t, "faiss: index_cpu_to_gpu failed")
    /\ UNCHANGED <<env, heapvars, mutex_, blobvars, op, obj, hist>>

\* gpu_index = faiss::gpu::index_cpu_to_gpu(...); the GPUIVF handle is made
\* around it with device_id and res; rs goes out of scope at the return.
CopyCpuToGpu_done(t) ==
    /\ pc[t] = "copy_gpu"
    /\ index_[obj[t]] # NULL /\ HasFree(heap)
    /\ \E r \in ContentRead(obj[t]) :
          IF r = "crash"
          THEN Goto(t, "crashed") /\ UNCHANGED <<heap, index_, model, gpu, loc, pool>>
          ELSE /\ \E s \in FreeGpuSlots :
                    /\ \A s2 \in FreeGpuSlots : s <= s2
                    /\ Install([heap EXCEPT ![Alloc(heap)] =
                                   [heap[index_[obj[t]]] EXCEPT !.device = loc[t].dev]],
                               index_, model,
                               [gpu EXCEPT ![s] = [index |-> Alloc(heap),
                                                   device |-> loc[t].dev,
                                                   res |-> loc[t].res]])
                    /\ loc' = [loc EXCEPT ![t].ret = s]
               /\ pool' = ResScopeExit(loc[t].res)
               /\ Goto(t, "done")
    /\ UNCHANGED <<env, alive, mutex_, blobvars, op, obj, hist>>

\* The caller lets go of a GPUIVF handle: the device copy is freed.
DropGpu(s) ==
    /\ gpu[s].index # NULL
    /\ \A t \in Threads : ~(op[t] = "CopyCpuToGpu" /\ loc[t].ret = s)
    /\ Install(heap, index_, model, [gpu EXCEPT ![s] = NoGpu])
    /\ UNCHANGED <<env, alive, mutex_, blobvars, pool, pc, op, obj, loc, hist>>

\* The caller takes the result or the exception; the locals are gone.
Return(t) ==
    /\ pc[t] \in {"done", "thrown"}
    /\ pc' = [pc EXCEPT ![t] = "idle"]
    /\ op' = [op EXCEPT ![t] = "none"]
    /\ obj' = [obj EXCEPT ![t] = 0]
    /\ loc' = [loc EXCEPT ![t] = NoLocals]
    /\ UNCHANGED <<env, heapvars, mutex_, blobvars, pool, hist>>

Next ==
    \/ \E t \in Threads :
        \/ \E o \in Objs : Train(t, o)
        \/ \E o \in Objs : set_index_model_lock(t, o)
        \/ set_index_model_body(t)
        \/ \E o \in Objs : Add_check(t, o)
        \/ Add_lock(t)
        \/ Add_body(t)
        \/ \E o \in Objs : AddWithoutIds_check(t, o)
        \/ AddWithoutIds_lock(t)
        \/ AddWithoutIds_body(t)
        \/ \E o \in Objs : Serialize_check(t, o)
        \/ Serialize_lock(t)
        \/ Serialize_body(t)
        \/ \E o \in Objs : Load_lock(t, o)
        \/ Load_body(t)
        \/ \E o \in Objs : Seal(t, o)
        \/ \E o \in Objs : Clone_lock(t, o)
        \/ Clone_body(t)
        \/ \E o \in Objs : Search_check(t, o)
        \/ Search_alloc(t)
        \/ Search_run(t)
        \/ \E o \in Objs : GenGraph_start(t, o)
        \/ GenGraph_batch(t)
        \/ GenGraph_end(t)
        \/ \E o \in Objs : CopyCpuToGpu_get(t, o)
        \/ CopyCpuToGpu_fail(t)
        \/ CopyCpuToGpu_done(t)
        \/ Return(t)
    \/ \E o \in Objs : Drop(o)
    \/ \E s \in GpuSlots : DropGpu(s)

\* One caller, the smallest inputs: every method in one specification.
WorldAll ==
    [threads |-> {1}, comp |-> {0}, ids |-> {7}, nlists |-> {1}, metrics |-> {"L2"},
     maxTotal |-> 1,
     maxRows |-> MaxRows, nprobes |-> NprobeSet]

Spec == InitNew(WorldAll) /\ [][Next]_vars

\* Any index the caller's IVF object can be around: none, an untrained one,
\* a trained one.
InitAny(world) ==
    /\ \E ix \in {FreeCell, NewUntrained(1, "L2", 1)} \cup Quantizers(world) :
          InitWith(world, ix, FreeCell)
    /\ NoSaved

\* ---- the life cycle of one index: Train, set_index_model, the adds, Seal
NextLife ==
    \E t \in Threads :
        \/ \E o \in Objs : Train(t, o)
        \/ \E o \in Objs : set_index_model_lock(t, o)
        \/ set_index_model_body(t)
        \/ \E o \in Objs : Add_check(t, o)
        \/ Add_lock(t)
        \/ Add_body(t)
        \/ \E o \in Objs : AddWithoutIds_check(t, o)
        \/ AddWithoutIds_lock(t)
        \/ AddWithoutIds_body(t)
        \/ \E o \in Objs : Seal(t, o)
        \/ Return(t)

WorldLife ==
    [threads |-> {1}, comp |-> {0, 1}, ids |-> {0, 7}, nlists |-> {1, 2},
     metrics |-> {"L2"}, maxTotal |-> MaxTotal,
     maxRows |-> MaxRows, nprobes |-> NprobeSet]

SpecLife == InitNew(WorldLife) /\ [][NextLife]_vars

\* ---- queries: Search and GenGraph on an index that is being filled
NextQuery ==
    \E t \in Threads :
        \/ \E o \in Objs : Add_check(t, o)
        \/ Add_lock(t)
        \/ Add_body(t)
        \/ \E o \in Objs : AddWithoutIds_check(t, o)
        \/ AddWithoutIds_lock(t)
        \/ AddWithoutIds_body(t)
        \/ \E o \in Objs : Search_check(t, o)
        \/ Search_alloc(t)
        \/ Search_run(t)
        \/ \E o \in Objs : GenGraph_start(t, o)
        \/ GenGraph_batch(t)
        \/ GenGraph_end(t)
        \/ Return(t)

WorldQuery ==
    [threads |-> {1}, comp |-> {0, 1}, ids |-> {7}, nlists |-> {1, 2},
     metrics |-> {"L2", "IP"}, maxTotal |-> MaxTotal,
     maxRows |-> MaxRows, nprobes |-> {0} \cup NprobeSet]

SpecQuery == InitAny(WorldQuery) /\ [][NextQuery]_vars

\* ---- persistence: Serialize, Load and Seal of an index that is being filled
NextPersist ==
    \E t \in Threads :
        \/ \E o \in Objs : Add_check(t, o)
        \/ Add_lock(t)
        \/ Add_body(t)
        \/ \E o \in Objs : AddWithoutIds_check(t, o)
        \/ AddWithoutIds_lock(t)
        \/ AddWithoutIds_body(t)
        \/ \E o \in Objs : Serialize_check(t, o)
        \/ Serialize_lock(t)
        \/ Serialize_body(t)
        \/ \E o \in Objs : Load_lock(t, o)
        \/ Load_body(t)
        \/ \E o \in Objs : Seal(t, o)
        \/ Return(t)

WorldPersist ==
    [threads |-> {1}, comp |-> {0, 1}, ids |-> {0, 7}, nlists |-> {1, 2},
     metrics |-> {"L2", "IP"}, maxTotal |-> MaxTotal,
     maxRows |-> MaxRows, nprobes |-> NprobeSet]

SpecPersist == InitAny(WorldPersist) /\ [][NextPersist]_vars

\* ---- clones: an index and its clone, each changed after the cloning
NextClone ==
    \/ \E t \in Threads :
        \/ \E o \in Objs : Clone_lock(t, o)
        \/ Clone_body(t)
        \/ \E o \in Objs : Add_check(t, o)
        \/ Add_lock(t)
        \/ Add_body(t)
        \/ \E o \in Objs : AddWithoutIds_check(t, o)
        \/ AddWithoutIds_lock(t)
        \/ AddWithoutIds_body(t)
        \/ \E o \in Objs : Load_lock(t, o)
        \/ Load_body(t)
        \/ \E o \in Objs : set_index_model_lock(t, o)
        \/ set_index_model_body(t)
        \/ Return(t)
    \/ \E o \in Objs : Drop(o)

WorldClone ==
    [threads |-> {1}, comp |-> {0, 1}, ids |-> {7}, nlists |-> {2},
     metrics |-> {"L2"}, maxTotal |-> MaxRows,
     maxRows |-> MaxRows, nprobes |-> NprobeSet]

\* The caller has the IVF object around an index (or none), the model it
\* trained, and the BinarySet of an index of one vector serialized earlier.
InitClone ==
    \E q \in Quantizers(WorldClone) : \E ix \in {FreeCell, q} :
        /\ InitWith(WorldClone, ix, q)
        /\ saved_src = add(q, <<[j \in 1..q.d |-> 1]>>)
        /\ saved = SerializeImpl(saved_src)

SpecClone == InitClone /\ [][NextClone]_vars

\* ---- device copies: two callers copying one host index to devices
NextGpu ==
    \/ \E t \in Threads :
        \/ \E o \in Objs : AddWithoutIds_check(t, o)
        \/ AddWithoutIds_lock(t)
        \/ AddWithoutIds_body(t)
        \/ \E o \in Objs : CopyCpuToGpu_get(t, o)
        \/ CopyCpuToGpu_fail(t)
        \/ CopyCpuToGpu_done(t)
        \/ Return(t)
    \/ \E s \in GpuSlots : DropGpu(s)

WorldGpu ==
    [threads |-> {1, 2}, comp |-> {0}, ids |-> {7}, nlists |-> {1},
     metrics |-> {"L2"}, maxTotal |-> MaxTotal,
     maxRows |-> MaxRows, nprobes |-> NprobeSet]

SpecGpu == InitAny(WorldGpu) /\ [][NextGpu]_vars

\* ---- two callers running the methods that take mutex_ on shared objects
NextConc ==
    \/ \E t \in Threads :
        \/ \E o \in Objs : set_index_model_lock(t, o)
        \/ set_index_model_body(t)
        \/ \E o \in Objs : Add_check(t, o)
        \/ Add_lock(t)
        \/ Add_body(t)
        \/ \E o \in Objs : AddWithoutIds_check(t, o)
        \/ AddWithoutIds_lock(t)
        \/ AddWithoutIds_body(t)
        \/ \E o \in Objs : Serialize_check(t, o)
        \/ Serialize_lock(t)
        \/ Serialize_body(t)
        \/ \E o \in Objs : Load_lock(t, o)
        \/ Load_body(t)
        \/ \E o \in Objs : Clone_lock(t, o)
        \/ Clone_body(t)
        \/ Return(t)
    \/ \E o \in Objs : Drop(o)

WorldConc ==
    [threads |-> {1, 2}, comp |-> {0}, ids |-> {7}, nlists |-> {1},
     metrics |-> {"L2"}, maxTotal |-> 1,
     maxRows |-> MaxRows, nprobes |-> NprobeSet]

\* The caller has trained a model and may have instantiated the index from it.
InitConc ==
    /\ \E q \in Quantizers(WorldConc) : \E ix \in {FreeCell, q} :
          InitWith(WorldConc, ix, q)
    /\ NoSaved

SpecConc == InitConc /\ [][NextConc]_vars

\* ---- two callers filling one new index with AddWithoutIds
NextSeq ==
    \E t \in Threads :
        \/ \E o \in Objs : AddWithoutIds_check(t, o)
        \/ AddWithoutIds_lock(t)
        \/ AddWithoutIds_body(t)
        \/ Return(t)

WorldSeq ==
    [threads |-> {1, 2}, comp |-> {0, 1}, ids |-> {7}, nlists |-> {1, 2},
     metrics |-> {"L2"}, maxTotal |-> MaxTotal + 1,
     maxRows |-> MaxRows + 1, nprobes |-> NprobeSet]

SpecSeq == InitAny(WorldSeq) /\ [][NextSeq]_vars

\* ---- models: an index instantiated from a model that was trained or loaded
NextModel ==
    \E t \in Threads :
        \/ \E o \in Objs : Train(t, o)
        \/ IVFIndexModel_Load(t)
        \/ \E o \in Objs : set_index_model_lock(t, o)
        \/ set_index_model_body(t)
        \/ \E o \in Objs : Add_check(t, o)
        \/ Add_lock(t)
        \/ Add_body(t)
        \/ \E o \in Objs : Serialize_check(t, o)
        \/ Serialize_lock(t)
        \/ Serialize_body(t)
        \/ Return(t)

WorldModel ==
    [threads |-> {1}, comp |-> {0, 1}, ids |-> {7}, nlists |-> {1},
     metrics |-> {"L2"}, maxTotal |-> MaxTotal,
     maxRows |-> MaxRows, nprobes |-> NprobeSet]

SpecModel == InitNew(WorldModel) /\ [][NextModel]_vars

\* ---- training: Train with any batch and nlist, on any index
NextTrain ==
    \E t \in Threads :
        \/ \E o \in Objs : Train(t, o)
        \/ \E o \in Objs : set_index_model_lock(t, o)
        \/ set_index_model_body(t)
        \/ Return(t)

WorldTrain ==
    [threads |-> {1}, comp |-> {0, 1}, ids |-> {7}, nlists |-> {0, 1, 2},
     metrics |-> {"L2", "IP"}, maxTotal |-> MaxTotal,
     maxRows |-> MaxRows, nprobes |-> NprobeSet]

SpecTrain == InitAny(WorldTrain) /\ [][NextTrain]_vars

\* ---- dimensions: batches of dim 1 handed to an index of dimension 1 or 2
NextDim ==
    \E t \in Threads :
        \/ \E o \in Objs : Add_check(t, o)
        \/ Add_lock(t)
        \/ Add_body(t)
        \/ \E o \in Objs : Search_check(t, o)
        \/ Search_alloc(t)
        \/ Search_run(t)
        \/ Return(t)

WorldDim ==
    [threads |-> {1}, comp |-> {0, 1}, ids |-> {7}, nlists |-> {1},
     metrics |-> {"L2"}, maxTotal |-> MaxTotal,
     maxRows |-> MaxRows, nprobes |-> NprobeSet]

\* The caller's index was trained on vectors of dimension 1 or 2.
InitDim ==
    /\ \E d \in {1, 2} : \E c \in [1..1 -> [1..d -> WorldDim.comp]] :
          InitWith(WorldDim, NewTrained(d, "L2", c), FreeCell)
    /\ NoSaved

SpecDim == InitDim /\ [][NextDim]_vars

\* ---- one caller searching while another adds or instantiates
NextRace ==
    \E t \in Threads :
        \/ \E o \in Objs : Search_check(t, o)
        \/ Search_alloc(t)
        \/ Search_run(t)
        \/ \E o \in Objs : Add_check(t, o)
        \/ Add_lock(t)
        \/ Add_body(t)
        \/ \E o \in Objs : set_index_model_lock(t, o)
        \/ set_index_model_body(t)
        \/ Return(t)

WorldRace ==
    [threads |-> {1, 2}, comp |-> {0}, ids |-> {7}, nlists |-> {1},
     metrics |-> {"L2"}, maxTotal |-> 1,
     maxRows |-> MaxRows, nprobes |-> NprobeSet]

\* The caller has trained a model and may have instantiated the index from it.
InitRace ==
    /\ \E q \in Quantizers(WorldRace) : \E ix \in {FreeCell, q} :
          InitWith(WorldRace, ix, q)
    /\ NoSaved

SpecRace == InitRace /\ [][NextRace]_vars

\* ---- two callers adding to one index, with and without ids
NextAdds ==
    \E t \in Threads :
        \/ \E o \in Objs : Add_check(t, o)
        \/ Add_lock(t)
        \/ Add_body(t)
        \/ \E o \in Objs : AddWithoutIds_check(t, o)
        \/ AddWithoutIds_lock(t)
        \/ AddWithoutIds_body(t)
        \/ Return(t)

WorldAdds ==
    [threads |-> {1, 2}, comp |-> {0, 1}, ids |-> {7}, nlists |-> {1, 2},
     metrics |-> {"L2"}, maxTotal |-> MaxTotal,
     maxRows |-> MaxRows, nprobes |-> NprobeSet]

SpecAdds == InitAny(WorldAdds) /\ [][NextAdds]_vars

\* =================================================================== claims
NotTrainedMsg == "index not initialize or trained"
NoResMsg == "CopyCpuToGpu Error, can't get gpu_resource"

\* What a caller can observe of an index object: Count, Dimension and the
\* ordered <<id, distance>> results of every query, k and probe configuration.
Answers(idx) ==
    [q \in [1..idx.d -> env.comp], k \in 0..MaxK, cfg \in Configs |->
        SearchOne(idx, q, k, GenParams(cfg))]

Observed(idx) ==
    IF idx.is_trained
    THEN <<idx.ntotal, idx.d, Answers(idx)>>
    ELSE <<idx.ntotal, idx.d>>

View(o) == IF index_[o] = NULL THEN <<>> ELSE Observed(heap[index_[o]])
ViewNext(o) == IF index_'[o] = NULL THEN <<>> ELSE Observed(heap'[index_'[o]])

CriticalPcs == {"sim_cs", "add_cs", "awi_cs", "ser_cs", "load_cs", "clone_cs"}

\* C1: of the threads running Add, AddWithoutIds, Serialize, Load,
\* set_index_model or Clone on one IVF object, at most one is inside its
\* critical section at any time, and it is the one that holds mutex_.
C1_MutualExclusion ==
    \A t \in Threads :
        pc[t] \in CriticalPcs =>
            /\ mutex_[obj[t]] = t
            /\ \A u \in Threads :
                  (pc[u] \in CriticalPcs /\ obj[u] = obj[t]) => u = t

\* One thread is inside Clone while the other waits at Add's lock_guard on
\* the same object.
C1_Witness ==
    \E t, u \in Threads :
        /\ t # u /\ obj[t] = obj[u]
        /\ pc[t] = "clone_cs" /\ pc[u] = "add_lock"

\* C2: on a trained index, Count() is the Count the index had when it was
\* instantiated (0 for a new one) plus the sizes of the batches the
\* successful Add calls since then have added.
C2_CountIsSumOfBatches ==
    \A o \in Objs :
        (alive[o] /\ index_[o] # NULL) =>
            Count(o) = hist[o].base + hist[o].sum

\* A second Add of one vector has returned on an index that started empty.
C2_Witness ==
    \E t \in Threads :
        /\ op[t] = "Add" /\ pc[t] = "done" /\ loc[t].rows = 1
        /\ hist[obj[t]].base = 0 /\ hist[obj[t]].sum = 2
        /\ Count(obj[t]) = 2

\* C3: the index Load leaves in the object from the BinarySet that Serialize
\* made of a trained index s has the Count and Dimension of s and answers
\* every query, k and probe configuration with the ids and distances of s.
C3_RoundTrip ==
    [][\A t \in Threads :
          (pc[t] = "load_cs" /\ pc'[t] = "done") =>
              /\ index_'[obj[t]] # NULL
              /\ heap'[index_'[obj[t]]].is_trained
              /\ ViewNext(obj[t]) = Observed(saved_src)]_vars

\* A Load has returned that put an index of one vector or more, and other
\* than the one the object had, in the object.
C3_Witness ==
    \E t \in Threads :
        /\ op[t] = "Load" /\ pc[t] = "done"
        /\ saved_src.ntotal > 0
        /\ Count(obj[t]) = saved_src.ntotal
        /\ hist[obj[t]].base = saved_src.ntotal

\* C4: the object Clone returns answers as the source does at the cloning,
\* and no step of a call on one IVF object changes the Count, Dimension or
\* results of another.
C4_CloneIndependent ==
    [][/\ \A t \in Threads :
            (pc[t] = "clone_cs" /\ pc'[t] = "done") =>
                /\ ViewNext(loc'[t].ret) = View(obj[t])
                /\ ViewNext(obj[t]) = View(obj[t])
                /\ index_'[loc'[t].ret] # index_'[obj[t]]
       /\ \A t \in Threads : \A o \in Objs :
            (pc[t] # "idle" /\ pc'[t] # pc[t] /\ obj[t] # o
                 /\ alive[o] /\ ~(op[t] = "Clone" /\ loc'[t].ret = o)) =>
                ViewNext(o) = View(o)]_vars

\* Source and clone are both in use and hold different contents after an
\* Add on the clone.
C4_Witness ==
    /\ alive[1] /\ alive[2] /\ index_[1] # NULL /\ index_[2] # NULL
    /\ hist[2].sum > 0
    /\ Count(2) > Count(1)
    /\ \E t \in Threads : op[t] = "Add" /\ obj[t] = 2 /\ pc[t] = "done"

\* C5: Add, AddWithoutIds, Serialize and Seal called on an object whose
\* index is absent or untrained throw "index not initialize or trained" as
\* their first step, with the index objects, the object's pointer, the mutex
\* and every BinarySet as they were before the call.
C5_NotTrainedBeforeMutation ==
    [][\A t \in Threads :
          (/\ pc[t] = "idle"
           /\ op'[t] \in {"Add", "AddWithoutIds", "Serialize", "Seal"}
           /\ NotTrained(obj'[t])) =>
              /\ pc'[t] = "thrown"
              /\ loc'[t].err = NotTrainedMsg
              /\ heap' = heap /\ index_' = index_ /\ model' = model
              /\ mutex_' = mutex_ /\ saved' = saved
              /\ ViewNext(obj'[t]) = View(obj'[t])]_vars

\* Serialize has thrown on an object that holds an untrained index.
C5_Witness ==
    \E t \in Threads :
        /\ op[t] = "Serialize" /\ pc[t] = "thrown"
        /\ loc[t].err = NotTrainedMsg
        /\ index_[obj[t]] # NULL /\ ~heap[index_[obj[t]]].is_trained

\* C6: Search called on an object whose index is absent or untrained throws
\* "index not initialize or trained" with neither of its two result buffers
\* allocated.
C6_SearchNotTrainedNoBuffers ==
    [][\A t \in Threads :
          (pc[t] = "idle" /\ op'[t] = "Search" /\ NotTrained(obj'[t])) =>
              /\ pc'[t] = "thrown"
              /\ loc'[t].err = NotTrainedMsg
              /\ loc'[t].nbuf = 0]_vars

\* Search has thrown on an object with no index.
C6_Witness ==
    \E t \in Threads :
        /\ op[t] = "Search" /\ pc[t] = "thrown"
        /\ index_[obj[t]] = NULL /\ loc[t].nbuf = 0

\* C7: when the device copy fails after CopyCpuToGpu took a resource, the
\* exception reaches the caller with the resource back in the pool, and no
\* failed CopyCpuToGpu leaves a lease held or a GPUIVF handle made.
C7_FailedCopyReleasesLease ==
    [][\A t \in Threads :
          (op'[t] = "CopyCpuToGpu" /\ pc'[t] = "thrown" /\ pc[t] # "thrown") =>
              /\ \A d \in PoolDevices : pool'[d] # t
              /\ loc'[t].ret = NULL
              /\ gpu' = gpu /\ heap' = heap /\ index_' = index_]_vars

\* A CopyCpuToGpu that had taken device 0's resource has thrown.
C7_Witness ==
    \E t \in Threads :
        /\ op[t] = "CopyCpuToGpu" /\ pc[t] = "thrown"
        /\ loc[t].res # NoRes
        /\ loc[t].err = "faiss: index_cpu_to_gpu failed"
        /\ pool[loc[t].res] = 0

\* C8: while a GPUIVF handle made by CopyCpuToGpu is alive, the resource it
\* was made with is handed to no other CopyCpuToGpu call and belongs to no
\* other handle.
C8_LeaseBoundToOneDeviceIndex ==
    \A s \in GpuSlots :
        gpu[s].index # NULL =>
            /\ \A t \in Threads :
                  (pc[t] = "copy_gpu" /\ loc[t].ret # s) => loc[t].res # gpu[s].res
            /\ \A s2 \in GpuSlots :
                  (s2 # s /\ gpu[s2].index # NULL) => gpu[s2].res # gpu[s].res

\* C9: when GetRes has no resource for the device id, CopyCpuToGpu throws
\* "CopyCpuToGpu Error, can't get gpu_resource", returns no handle, and
\* leaves the host index, the handles and the pool as they were.
C9_NoResourceNoCopy ==
    [][\A t \in Threads :
          (/\ pc[t] = "idle" /\ op'[t] = "CopyCpuToGpu"
           /\ GetRes(loc'[t].dev) = NoRes) =>
              /\ pc'[t] = "thrown"
              /\ loc'[t].err = NoResMsg
              /\ loc'[t].ret = NULL
              /\ heap' = heap /\ index_' = index_ /\ gpu' = gpu /\ pool' = pool
              /\ ViewNext(obj'[t]) = View(obj'[t])]_vars

\* CopyCpuToGpu with a device id the pool does not have has thrown on a
\* host index that holds a vector.
C9_Witness ==
    \E t \in Threads :
        /\ op[t] = "CopyCpuToGpu" /\ pc[t] = "thrown"
        /\ loc[t].dev \notin PoolDevices
        /\ loc[t].err = NoResMsg
        /\ index_[obj[t]] # NULL /\ Count(obj[t]) > 0

\* C10: GenGraph(k, graph, dataset, config) on a dataset of N rows returns a
\* graph of exactly N entries, each of length k, whatever Count() is.
C10_GraphHasNEntries ==
    \A t \in Threads :
        (op[t] = "GenGraph" /\ pc[t] = "done") =>
            /\ Len(loc[t].graph) = Rows(loc[t].ds)
            /\ \A i \in 1..Len(loc[t].graph) : Len(loc[t].graph[i]) = loc[t].k

\* The identifiers stored in an index.
StoredIds(idx) ==
    {idx.invlists[c][e][1] :
        <<c, e>> \in {ce \in (1..Len(idx.invlists)) \X (1..idx.ntotal) :
                         ce[2] <= Len(idx.invlists[ce[1]])}}

\* The number of vectors in the lists probed for query q.
Candidates(idx, q, cfg) ==
    Len(Scan(idx, ProbeOrder(idx.cents, q), Min(GenParams(cfg), Len(idx.cents))))

\* C11: every identifier a Search returns is -1 or the identifier of a
\* vector stored in the index, and a query's row holds min(k, candidates in
\* the probed lists) identifiers followed by -1 in the slots that are left.
C11_SearchReturnsStoredIds ==
    \A t \in Threads :
        (op[t] = "Search" /\ pc[t] = "done") =>
            LET idx == heap[index_[obj[t]]]
                k == loc[t].k
                ids == loc[t].ids
                Found(r) == Min(k, Candidates(idx, loc[t].ds.x[r], loc[t].cfg))
            IN /\ Len(ids) = loc[t].rows * k
               /\ \A i \in 1..Len(ids) :
                     ids[i] = NoLabel \/ ids[i] \in StoredIds(idx)
               /\ \A r \in 1..loc[t].rows : \A m \in 1..k :
                     (ids[(r - 1) * k + m] = NoLabel) <=> (m > Found(r))

\* A Search with k = 1 that probed a list has returned -1 on an index that
\* holds a vector, and it lies in a list the query did not probe.
C11_Witness ==
    \E t \in Threads :
        /\ op[t] = "Search" /\ pc[t] = "done"
        /\ loc[t].rows = 1 /\ loc[t].k = 1 /\ GenParams(loc[t].cfg) = 1
        /\ loc[t].ids = <<NoLabel>>
        /\ Count(obj[t]) > 0

\* The <<id, vector>> entries of an index, list after list.
Entries(idx) == Flatten(idx.invlists, 1)

\* C12: AddWithoutIds of n vectors on an index whose Count is c stores vector
\* i of the batch with the identifier c + i - 1, after the entries its list
\* held and in batch order; and however two callers' AddWithoutIds calls on a
\* new index interleave, the stored identifiers are exactly 0 .. Count - 1,
\* each once.
C12_SequentialIds ==
    [][/\ \A t \in Threads :
            (pc[t] = "awi_cs" /\ pc'[t] = "done") =>
                LET old == heap[index_[obj[t]]]
                    new == heap'[index_'[obj[t]]]
                    x == loc'[t].ds.x
                    pairs == [i \in 1..Len(x) |-> <<old.ntotal + i - 1, x[i]>>]
                    InList(c) == LET Here(e) == Assign(old.cents, e[2]) = c
                                 IN SelectSeq(pairs, Here)
                IN /\ new.ntotal = old.ntotal + Len(x)
                   /\ \A c \in 1..Len(old.invlists) :
                         new.invlists[c] = old.invlists[c] \o InList(c)
       /\ \A o \in Objs :
            (alive'[o] /\ index_'[o] # NULL) =>
                LET idx == heap'[index_'[o]]
                IN /\ StoredIds(idx) = 0..(idx.ntotal - 1)
                   /\ Len(Entries(idx)) = idx.ntotal]_vars

\* An AddWithoutIds of two vectors has returned on an index that held one:
\* Count is 3.
C12_Witness ==
    \E t \in Threads :
        /\ op[t] = "AddWithoutIds" /\ pc[t] = "done" /\ loc[t].rows = 2
        /\ Count(obj[t]) = 3
        /\ StoredIds(heap[index_[obj[t]]]) = {0, 1, 2}

\* C13: set_index_model leaves the object with a trained index of Count() 0
\* that answers as the model's index and is another object than it; and no
\* step of an Add changes the model's index.
C13_InstantiateGivesEmptyCopy ==
    [][/\ \A t \in Threads :
            (pc[t] = "sim_cs" /\ pc'[t] = "done") =>
                LET new == heap'[index_'[obj[t]]]
                IN /\ new.is_trained
                   /\ new.ntotal = 0
                   /\ new.cents = heap[model].cents
                   /\ index_'[obj[t]] # model'
                   /\ heap'[model'] = heap[model]
       /\ \A t \in Threads :
            (pc[t] = "add_cs" /\ model # NULL) =>
                (model' # NULL /\ heap'[model'] = heap[model])]_vars

\* C14: Train with a batch of zero rows throws and makes no model; and no
\* Train changes the index of the object it is called on.
C14_TrainEmptyFails ==
    [][\A t \in Threads :
          (pc[t] = "idle" /\ op'[t] = "Train") =>
              /\ loc'[t].rows = 0 =>
                    (pc'[t] = "thrown" /\ model' = model /\ heap' = heap)
              /\ ViewNext(obj'[t]) = View(obj'[t])
              /\ (index_'[obj'[t]] = NULL) <=> (index_[obj'[t]] = NULL)]_vars

\* C15: no Search and no Add whose batch of at least one row has another
\* dimension than the index returns: the call fails, with no result filled
\* and no vector added.
C15_DimensionMismatchFails ==
    \A t \in Threads :
        (op[t] \in {"Add", "Search"} /\ pc[t] = "done" /\ Rows(loc[t].ds) >= 1) =>
            loc[t].ds.dim = Dimension(obj[t])

\* C16: the index is free of data races: no thread is about to read the
\* index of an object in search_impl, GenGraph or CopyCpuToGpu while another
\* thread is inside Add, AddWithoutIds, Load or set_index_model of the same
\* object, writing it.
C16_NoDataRace ==
    \A t \in Threads :
        pc[t] \in {"search_impl", "gg_loop", "copy_gpu"} =>
            ~(Resetting(obj[t]) \/ Adding(obj[t]))

\* C17: the probe count a completed Search hands to the index is 1 when the
\* configuration names none, and always lies in 1..nlist: an nprobe of 0 or
\* above nlist never reaches the index unchanged.
C17_ProbeCountInRange ==
    \A t \in Threads :
        (op[t] = "Search" /\ pc[t] = "done") =>
            /\ ~loc[t].cfg.has_nprobe => GenParams(loc[t].cfg) = 1
            /\ GenParams(loc[t].cfg) \in 1..Len(heap[index_[obj[t]]].cents)

\* C18: a completed GenGraph over a dataset of N rows has issued
\* ceil(N / 100) searches, and graph[p][m] is the m-th result id of the
\* search of the dataset's row p, for each of the N rows.
C18_GraphOfDatasetRows ==
    \A t \in Threads :
        (op[t] = "GenGraph" /\ pc[t] = "done") =>
            LET ds == loc[t].ds
                idx == heap[index_[obj[t]]]
                Row(p) == Labels(SearchOne(idx, ds.x[p], loc[t].k,
                                           GenParams(loc[t].cfg)))
            IN /\ loc[t].i = total_search_count(Rows(ds))
               /\ \A p \in 1..Rows(ds) :
                     /\ p <= Len(loc[t].graph)
                     /\ loc[t].graph[p] = Row(p)

\* The number of times e occurs in a sequence.
Occ(seq, e) == Cardinality({i \in 1..Len(seq) : seq[i] = e})

Ran(seq) == {seq[i] : i \in 1..Len(seq)}

\* C19: however the Add and AddWithoutIds calls of two threads on one index
\* interleave, each call's critical section stores every (id, vector) pair of
\* its batch exactly once and removes none, no other step changes the index,
\* and Count() is the initial Count plus the sizes of the batches added.
C19_ConcurrentAddsAllStored ==
    [][\A o \in Objs :
          index_[o] # NULL =>
              LET old == heap[index_[o]]
                  new == heap'[index_'[o]]
                  adders == {t \in Threads :
                                /\ obj[t] = o /\ pc[t] \in {"add_cs", "awi_cs"}
                                /\ pc'[t] = "done"}
              IN /\ index_'[o] # NULL
                 /\ adders = {} => new = old
                 /\ \A t \in adders :
                       LET ds == loc'[t].ds
                           batch == [i \in 1..Rows(ds) |->
                                       <<IF op[t] = "Add" THEN ds.ids[i]
                                         ELSE old.ntotal + i - 1, ds.x[i]>>]
                       IN /\ new.ntotal = old.ntotal + Rows(ds)
                          /\ \A e \in Ran(Entries(new)) \cup Ran(Entries(old))
                                        \cup Ran(batch) :
                                Occ(Entries(new), e) =
                                    Occ(Entries(old), e) + Occ(batch, e)
                 /\ new.ntotal = hist'[o].base + hist'[o].sum
                 /\ Len(Entries(new)) = new.ntotal]_vars

\* Both threads' calls, an Add and an AddWithoutIds of one vector each, have
\* returned on the same index, which holds both vectors.
C19_Witness ==
    /\ op[1] = "Add" /\ op[2] = "AddWithoutIds"
    /\ pc[1] = "done" /\ pc[2] = "done" /\ obj[1] = obj[2]
    /\ loc[1].rows = 1 /\ loc[2].rows = 1
    /\ hist[obj[1]].sum = 2
    /\ Count(obj[1]) = hist[obj[1]].base + 2

\* C20: the trained check of Add, AddWithoutIds and Serialize is atomic with
\* the critical section: while a thread is between its check and its
\* lock_guard, no set_index_model and no Load of another thread replaces the
\* index of the same object, so the index the thread then mutates or encodes
\* is the one it checked.
C20_CheckAtomicWithCriticalSection ==
    [][\A t \in Threads, u \in Threads :
          (/\ pc[t] \in {"add_lock", "awi_lock", "ser_lock"}
           /\ obj[u] = obj[t] /\ pc[u] \in {"sim_cs", "load_cs"}) =>
              pc'[u] = pc[u]]_vars

====
